---- MODULE Spec2Model ----
(***************************************************************************)
(* Model of src/src/main.rs: the synchronous, round based randomized       *)
(* (Delta+1)-colouring of distributed_randomized_coloring_algorithm and    *)
(* the topology constructors complete_graph, chain and hydrocarbon.        *)
(*                                                                         *)
(* Vertices are indexed 0..n-1 as in the source (Node.id = index in the    *)
(* nodes vector).  A graph is the sequence of its directed edges <<u, v>>   *)
(* in the order graph.edges() yields them (insertion order).               *)
(***************************************************************************)
EXTENDS Naturals, Sequences, FiniteSets

\* ---- bounds of the model ------------------------------------------------
\* largest num_nodes handed to the topology constructors
MaxNodes == 3
\* the loop of the algorithm is followed through rounds 1..MaxRound
MaxRound == 3
\* largest num_nodes for which the constructors alone are run
MaxBuild == 20

VARIABLES
    cli,       \* the parsed Cli: [mode, num]
    graph,     \* the VecGraph: sequence of directed edges <<u, v>>
    nodes,     \* the Vec<Node>: [0..n-1 -> [id, coloring, inbox]]
    delta,     \* the delta argument
    round,     \* the local `round`
    pc,        \* position in the program: "main", "built", then in the
               \* algorithm "draw", "exchange", "compute", "check", "done"
               \* (returned), then in test_case "sorted", "asserted";
               \* "panic" (unwrap on None, failed assert_eq)
    k,         \* index of the running for loop (node or edge index)
    start      \* history: the colourings at the start of the current round

vars == <<cli, graph, nodes, delta, round, pc, k, start>>

\* ---- data model ---------------------------------------------------------
Permanent(c) == [kind |-> "Permanent", color |-> c]
Candidate(c) == [kind |-> "Candidate", color |-> c]

\* fn N(id): a fresh node is Candidate(id) with an empty inbox
N(id) == [id |-> id, coloring |-> Candidate(id), inbox |-> <<>>]

\* a loop with the filter of line 198 dropped: every node is processed
has_candidate_color_always(n) == TRUE

\* the closure has_candidate_color
has_candidate_color(n) == n.coloring.kind = "Candidate"

NumNodes == Cardinality(DOMAIN nodes)
Ids == DOMAIN nodes

\* ---- topology constructors ---------------------------------------------
\* both directions of one undirected bond, in the order they are added
Bond(u, v) == <<  <<u, v>>, <<v, u>>  >>

\* the j-th edge added by the loops `for n1 in &g_nodes { for n2 in &g_nodes`
\* of complete_graph: each n1 adds the n - 1 edges to the n2 # n1, in order
CompleteEdge(n, j) ==
    LET n1 == (j - 1) \div (n - 1)
        r == (j - 1) % (n - 1)
    IN <<n1, IF r < n1 THEN r ELSE r + 1>>

complete_graph(n) ==
    [edges |-> [j \in 1..(n * (n - 1)) |-> CompleteEdge(n, j)],
     nodes |-> [i \in 0..(n - 1) |-> N(i)],
     delta |-> n - 1]

RECURSIVE ChainFrom(_, _)
\* the loop `for i in 0..g_nodes.len() - 1` of chain, continued at i
ChainFrom(n, i) ==
    IF i >= n - 1 THEN <<>> ELSE Bond(i, i + 1) \o ChainFrom(n, i + 1)

Min(a, b) == IF a <= b THEN a ELSE b

\* chain returning (num_nodes - 1) without the .min(2) of line 86
chain_uncapped(n) ==
    [edges |-> ChainFrom(n, 0),
     nodes |-> [i \in 0..(n - 1) |-> N(i)],
     delta |-> n - 1]

chain(n) ==
    [edges |-> ChainFrom(n, 0),
     nodes |-> [i \in 0..(n - 1) |-> N(i)],
     delta |-> Min(n - 1, 2)]

RECURSIVE HydroLoop_no_break(_, _, _)
\* the loop without the breaks of lines 127-129 and 136-138: every carbon
\* gets its three bonds whatever num_nodes is
HydroLoop_no_break(n, node_counter, last_carbon) ==
    IF node_counter >= n THEN <<>>
    ELSE Bond(last_carbon, last_carbon + 1) \o Bond(last_carbon, last_carbon + 2)
             \o Bond(last_carbon, last_carbon + 3)
             \o HydroLoop_no_break(n, node_counter + 3, last_carbon + 3)

RECURSIVE HydroLoop(_, _, _)
\* the `loop` of hydrocarbon, entered with node_counter and last_carbon
HydroLoop(n, node_counter, last_carbon) ==
    IF node_counter >= n THEN <<>>
    ELSE LET top == Bond(last_carbon, last_carbon + 1)
             bottom == Bond(last_carbon, last_carbon + 2)
             next == Bond(last_carbon, last_carbon + 3)
         IN IF node_counter + 1 = n THEN top
            ELSE IF node_counter + 2 = n THEN top \o bottom
            ELSE IF node_counter + 3 = n THEN top \o bottom \o next
            ELSE top \o bottom \o next
                     \o HydroLoop(n, node_counter + 3, last_carbon + 3)

hydrocarbon(n) ==
    [edges |-> (IF n >= 2 THEN Bond(0, 1) ELSE <<>>) \o HydroLoop(n, 2, 1),
     nodes |-> [i \in 0..(n - 1) |-> N(i)],
     delta |-> Min(n - 1, 4)]

\* enum RunMode; Testcase is the default of --mode
RunModes == {"Testcase", "CompleteGraph", "Chain", "Hydrocarbon"}

\* the command lines with num in 1..max (clap rejects num = 0)
Clis(max) == [mode : RunModes, num : 1..max]

\* the colouring function the arm of `match cli.mode` calls: every arm calls
\* distributed_randomized_coloring_algorithm (Testcase through test_case)
PolicyOf(mode) == "randomized"

\* the constructor call of the arm of `match cli.mode` in main; the Testcase
\* arm calls test_case, which builds complete_graph(200) whatever num is
Construct(c) ==
    CASE c.mode = "Testcase" -> complete_graph(200)
      [] c.mode = "CompleteGraph" -> complete_graph(c.num)
      [] c.mode = "Chain" -> chain(c.num)
      [] c.mode = "Hydrocarbon" -> hydrocarbon(c.num)

\* the number of nodes of the graph the command line c makes main build
num_nodes(c) == IF c.mode = "Testcase" THEN 200 ELSE c.num

\* ---- the algorithm ------------------------------------------------------
\* The function is entered with the graph of a command line; the graphs
\* followed are those of at most MaxNodes nodes (the graph of the Testcase
\* arm has 200).
\* the directed edges as a set, and the senders of the edges into v
Edges == {graph[j] : j \in DOMAIN graph}
InNeighbours(v) == {e[1] : e \in {e \in Edges : e[2] = v}}

\* a palette one colour too wide, (0..=delta + 1)
list_of_colors_wide(d) == 0..(d + 1)

\* a palette one colour too narrow, (0..delta)
list_of_colors_exclusive(d) == IF d = 0 THEN {} ELSE 0..(d - 1)

\* list_of_colors: (0..=delta).collect()
list_of_colors(d) == 0..d

Colorings == [i \in Ids |-> nodes[i].coloring]

Init ==
    \E c \in {d \in Clis(MaxNodes) : num_nodes(d) <= MaxNodes} :
      \E t \in {Construct(c)} :
        /\ cli = c
        /\ graph = t.edges
        /\ nodes = t.nodes
        /\ delta \in 0..t.delta
        /\ round = 1
        /\ pc = "draw"
        /\ k = 0
        /\ start = [i \in DOMAIN t.nodes |-> t.nodes[i].coloring]

\* lines 167-173: every node draws a colour of the palette
DrawInitial ==
    /\ pc = "draw"
    /\ k < NumNodes
    /\ \E random_color \in list_of_colors(delta) :
           nodes' = [nodes EXCEPT ![k].coloring = Candidate(random_color)]
    /\ k' = k + 1
    /\ UNCHANGED <<cli, graph, delta, round, pc, start>>

\* the first loop is exhausted: enter `loop` with round 1
DrawDone ==
    /\ pc = "draw"
    /\ k = NumNodes
    /\ pc' = "exchange"
    /\ k' = 0
    /\ start' = Colorings
    /\ UNCHANGED <<cli, graph, nodes, delta, round>>

\* the message pushed into the sender's own inbox
Send_to_self(ns, u, v) == [ns EXCEPT ![u].inbox = Append(@, ns[u].coloring)]

\* the message holding the receiver's colouring instead of the sender's
Send_receiver_coloring(ns, u, v) ==
    [ns EXCEPT ![v].inbox = Append(@, ns[v].coloring)]

\* lines 181-185: one iteration of `for e in graph.edges()`
Send(ns, u, v) == [ns EXCEPT ![v].inbox = Append(@, ns[u].coloring)]

Exchange ==
    /\ pc = "exchange"
    /\ k < Len(graph)
    /\ nodes' = Send(nodes, graph[k + 1][1], graph[k + 1][2])
    /\ k' = k + 1
    /\ UNCHANGED <<cli, graph, delta, round, pc, start>>

ExchangeDone ==
    /\ pc = "exchange"
    /\ k = Len(graph)
    /\ pc' = "compute"
    /\ k' = 0
    /\ UNCHANGED <<cli, graph, nodes, delta, round, start>>

\* the set of colours carried by the Permanent messages of an inbox
PermanentColors(inbox) ==
    {inbox[j].color : j \in {j \in DOMAIN inbox : inbox[j].kind = "Permanent"}}

\* line 209 run only for the Candidate messages
InboxColors_candidates_only(inbox) ==
    {inbox[j].color : j \in {j \in DOMAIN inbox : inbox[j].kind = "Candidate"}}

\* the set of colours carried by any message of an inbox
InboxColors(inbox) == {inbox[j].color : j \in DOMAIN inbox}

\* available_colors with line 207 outside the `if let Permanent` of line 206
available_colors_uncontested(n, d) == list_of_colors(d) \ InboxColors(n.inbox)

\* lines 202-210: the palette minus the colours of the Permanent messages
available_colors(n, d) == list_of_colors(d) \ PermanentColors(n.inbox)

\* candidate_colors with line 209 inside the `if let Permanent` of line 206
candidate_colors_permanent_only(n, d) ==
    list_of_colors(d) \ PermanentColors(n.inbox)

\* candidate_colors read from the neighbours' current colourings, not the inbox
candidate_colors_live(n, d) ==
    list_of_colors(d) \ {nodes[u].coloring.color : u \in InNeighbours(n.id)}

\* lines 202-210: the palette minus the colours of all messages
candidate_colors(n, d) == list_of_colors(d) \ InboxColors(n.inbox)

\* line 221 testing the wrong set
can_go_permanent_available(n, d) == n.coloring.color \in available_colors(n, d)

\* line 221: the node can go permanent
can_go_permanent(n, d) == n.coloring.color \in candidate_colors(n, d)

\* a compute loop that clears the inbox of the nodes its filter drops
ComputeSkip_clearing ==
    /\ pc = "compute"
    /\ k < NumNodes
    /\ ~has_candidate_color(nodes[k])
    /\ nodes' = [nodes EXCEPT ![k].inbox = <<>>]
    /\ k' = k + 1
    /\ UNCHANGED <<cli, graph, delta, round, pc, start>>

\* the filter of line 198 passes over a Permanent node
ComputeSkip ==
    /\ pc = "compute"
    /\ k < NumNodes
    /\ ~has_candidate_color(nodes[k])
    /\ k' = k + 1
    /\ UNCHANGED <<cli, graph, nodes, delta, round, pc, start>>

\* line 225 fixing the smallest uncontested colour instead of the node's own
ComputePermanent_recolored ==
    /\ pc = "compute"
    /\ k < NumNodes
    /\ has_candidate_color(nodes[k])
    /\ can_go_permanent(nodes[k], delta)
    /\ \E c \in candidate_colors(nodes[k], delta) :
          /\ \A d \in candidate_colors(nodes[k], delta) : c <= d
          /\ nodes' = [nodes EXCEPT ![k].inbox = <<>>,
                                    ![k].coloring = Permanent(c)]
    /\ k' = k + 1
    /\ UNCHANGED <<cli, graph, delta, round, pc, start>>

\* lines 218-227: inbox cleared, colour kept and made permanent
ComputePermanent ==
    /\ pc = "compute"
    /\ k < NumNodes
    /\ has_candidate_color(nodes[k])
    /\ can_go_permanent(nodes[k], delta)
    /\ nodes' = [nodes EXCEPT ![k].inbox = <<>>,
                              ![k].coloring = Permanent(nodes[k].coloring.color)]
    /\ k' = k + 1
    /\ UNCHANGED <<cli, graph, delta, round, pc, start>>

\* lines 218-230: inbox cleared, a new colour drawn from available_colors
ComputeResample ==
    /\ pc = "compute"
    /\ k < NumNodes
    /\ has_candidate_color(nodes[k])
    /\ ~can_go_permanent(nodes[k], delta)
    /\ \E random_color \in available_colors(nodes[k], delta) :
           nodes' = [nodes EXCEPT ![k].inbox = <<>>,
                                  ![k].coloring = Candidate(random_color)]
    /\ k' = k + 1
    /\ UNCHANGED <<cli, graph, delta, round, pc, start>>

\* line 229: choose on an empty set is None, unwrap panics (inbox was cleared)
ComputePanic ==
    /\ pc = "compute"
    /\ k < NumNodes
    /\ has_candidate_color(nodes[k])
    /\ ~can_go_permanent(nodes[k], delta)
    /\ available_colors(nodes[k], delta) = {}
    /\ nodes' = [nodes EXCEPT ![k].inbox = <<>>]
    /\ pc' = "panic"
    /\ UNCHANGED <<cli, graph, delta, round, k, start>>

ComputeDone ==
    /\ pc = "compute"
    /\ k = NumNodes
    /\ pc' = "check"
    /\ UNCHANGED <<cli, graph, nodes, delta, round, k, start>>

\* line 238 with is_some for is_none: some node is not a candidate
finished_any(ns) == \E i \in DOMAIN ns : ~has_candidate_color(ns[i])

\* line 238: no node has a candidate colour
finished(ns) == \A i \in DOMAIN ns : ~has_candidate_color(ns[i])

\* lines 238-244: break out of the loop, the function returns
Return ==
    /\ pc = "check"
    /\ finished(nodes)
    /\ pc' = "done"
    /\ UNCHANGED <<cli, graph, nodes, delta, round, k, start>>

\* lines 246-253: round += 1 and the loop starts over
NextRound ==
    /\ pc = "check"
    /\ ~finished(nodes)
    /\ round < MaxRound
    /\ round' = round + 1
    /\ pc' = "exchange"
    /\ k' = 0
    /\ start' = Colorings
    /\ UNCHANGED <<cli, graph, nodes, delta>>

Next ==
    \/ DrawInitial
    \/ DrawDone
    \/ Exchange
    \/ ExchangeDone
    \/ ComputeSkip
    \/ ComputePermanent
    \/ ComputeResample
    \/ ComputePanic
    \/ ComputeDone
    \/ Return
    \/ NextRound

Spec == Init /\ [][Next]_vars

\* ---- the run of the single thread --------------------------------------
\* the thread always runs on: a step of the function that can be taken is
\* taken (rounds are followed up to MaxRound, as in Spec)
LiveSpec == Init /\ [][Next]_vars /\ WF_vars(Next)

\* ---- main up to the return of the constructor ---------------------------
\* main has parsed the command line; no graph and no node exists yet
InitMain ==
    /\ cli \in Clis(MaxBuild)
    /\ graph = <<>>
    /\ nodes = <<>>
    /\ delta = 0
    /\ round = 1
    /\ pc = "main"
    /\ k = 0
    /\ start = <<>>

\* lines 263, 363-364, 375-376, 387-388: let (graph, mut nodes, delta) = ...
BuildTopology ==
    /\ pc = "main"
    /\ \E t \in {Construct(cli)} :
          /\ graph' = t.edges
          /\ nodes' = t.nodes
          /\ delta' = t.delta
    /\ pc' = "built"
    /\ UNCHANGED <<cli, round, k, start>>

BuildSpec == InitMain /\ [][BuildTopology]_vars

\* ---- test_case after the algorithm has returned (lines 266-282) ----------
\* nodes.sort_by(|a, b| a.color.cmp(b.color)): a stable sort, the node with
\* rank p (nodes of smaller colour, then nodes of equal colour before it)
\* goes to index p
sort_by(ns) ==
    LET rank == [i \in DOMAIN ns |->
                    Cardinality({j \in DOMAIN ns :
                        \/ ns[j].coloring.color < ns[i].coloring.color
                        \/ /\ ns[j].coloring.color = ns[i].coloring.color
                           /\ j < i})]
    IN [p \in 0..(Cardinality(DOMAIN ns) - 1) |->
           ns[CHOOSE i \in DOMAIN ns : rank[i] = p]]

\* nodes.dedup_by_key(|n| n.color): of consecutive nodes of one colour only
\* the first is kept
dedup_by_key(ns) ==
    LET keep == {i \in DOMAIN ns :
                    i = 0 \/ ns[i].coloring.color # ns[i - 1].coloring.color}
    IN [p \in 0..(Cardinality(keep) - 1) |->
           ns[CHOOSE i \in keep : Cardinality({j \in keep : j < i}) = p]]

\* line 273
SortByColor ==
    /\ pc = "done"
    /\ cli.mode = "Testcase"
    /\ nodes' = sort_by(nodes)
    /\ pc' = "sorted"
    /\ UNCHANGED <<cli, graph, delta, round, k, start>>

\* lines 280-282: all_nodes_len, the deduplication and the assert_eq
DedupByKey ==
    /\ pc = "sorted"
    /\ nodes' = dedup_by_key(nodes)
    /\ pc' = IF Cardinality(DOMAIN nodes') = Cardinality(DOMAIN nodes)
             THEN "asserted" ELSE "panic"
    /\ UNCHANGED <<cli, graph, delta, round, k, start>>

\* ---- the program as a whole ---------------------------------------------
\* lines 264, 364, 376, 388: main (or test_case) hands the graph, the nodes
\* and the delta of the constructor to the algorithm
CallAlgorithm ==
    /\ pc = "built"
    /\ round' = 1
    /\ pc' = "draw"
    /\ k' = 0
    /\ start' = Colorings
    /\ UNCHANGED <<cli, graph, nodes, delta>>

\* a run of main: the constructor, the algorithm and, in test_case, the sort
\* and the deduplication of the returned nodes
NextMain ==
    \/ BuildTopology
    \/ CallAlgorithm
    \/ Next
    \/ SortByColor
    \/ DedupByKey

MainSpec == InitMain /\ [][NextMain]_vars

\* ---- vocabulary of the properties ---------------------------------------
Color(i) == nodes[i].coloring.color
IsPermanent(i) == nodes[i].coloring.kind = "Permanent"
IsCandidate(i) == nodes[i].coloring.kind = "Candidate"
AllPermanent == \A i \in Ids : IsPermanent(i)
CandidateCount == Cardinality({i \in Ids : IsCandidate(i)})

\* every directed edge has its reverse edge
Symmetric == \A e \in Edges : <<e[2], e[1]>> \in Edges

\* the true maximum (out-)degree of the graph
Degree(u) == Cardinality({e \in Edges : e[1] = u})
MaxDegree == CHOOSE m \in 0..Len(graph) :
                 /\ \A u \in Ids : Degree(u) <= m
                 /\ \E u \in Ids : Degree(u) = m

\* every two distinct vertices are joined in both directions
IsComplete == Edges = {e \in Ids \X Ids : e[1] # e[2]}

\* the messages a round delivers to v: one per edge into v, in edge order,
\* holding the sender's colouring at the start of the round
InEdges(v) == SelectSeq(graph, LAMBDA e : e[2] = v)
Snapshot(v) == [j \in 1..Len(InEdges(v)) |-> start[InEdges(v)[j][1]]]

\* the colourings the rule of section 4.2 allows a vertex with colouring own
\* whose neighbours hold the colourings msgs
RuleOutcomes(own, msgs, d) ==
    IF own.kind = "Permanent" THEN {own}
    ELSE IF own.color \notin {m.color : m \in msgs}
         THEN {[kind |-> "Permanent", color |-> own.color]}
         ELSE {[kind |-> "Candidate", color |-> c] :
                  c \in (0..d) \ {m.color : m \in {x \in msgs : x.kind = "Permanent"}}}

\* ---- C1 -----------------------------------------------------------------
\* C1 (validity): on a graph whose directed edge set is symmetric, when the
\* algorithm has returned the two ends of every edge hold different colours.
Validity ==
    (pc = "done" /\ Symmetric) => \A e \in Edges : Color(e[1]) # Color(e[2])

\* a run over a graph with edges that returned after resampling
ValidityWitness == pc = "done" /\ round >= 2 /\ Len(graph) >= 4 /\ Symmetric

\* ---- C2 -----------------------------------------------------------------
\* C2 (Permanent is absorbing): no step changes the colouring of a vertex that
\* is Permanent, so it keeps its colour and never returns to Candidate, and
\* no step raises the number of Candidate vertices.
PermanentAbsorbing ==
    [][/\ \A i \in Ids : IsPermanent(i) => nodes'[i].coloring = nodes[i].coloring
       /\ Cardinality({i \in Ids : nodes'[i].coloring.kind = "Candidate"})
              <= CandidateCount]_vars

\* a vertex Permanent since the start of the round went through a compute
\* phase holding a message that carries its own colour
PermanentAbsorbingWitness ==
    /\ pc = "check"
    /\ \E i \in Ids :
          /\ start[i].kind = "Permanent"
          /\ \E j \in DOMAIN nodes[i].inbox : nodes[i].inbox[j].color = Color(i)

\* ---- C3 -----------------------------------------------------------------
\* C3 as stated (palette bound at all times): in every state of a run every
\* vertex's colour lies in 0..delta.
PaletteBoundAlways == \A i \in Ids : Color(i) \in 0..delta

\* C3 amended: every vertex that has made its initial draw (all vertices once
\* the first loop is over) holds a colour in 0..delta; before its draw a
\* vertex holds Candidate(id) from N(id).
PaletteBoundAfterDraw ==
    \A i \in Ids : (pc # "draw" \/ i < k) => Color(i) \in 0..delta

\* a vertex whose id exceeds delta, after a resampling round
PaletteBoundWitness ==
    pc = "check" /\ round >= 2 /\ \E i \in Ids : i > delta /\ IsCandidate(i)

\* ---- C4 -----------------------------------------------------------------
\* C4 (stop exactly at convergence): the function returns only from the check
\* of a round that left no Candidate, a round that left no Candidate is
\* followed by the return and never by another round, and a returned run has
\* only Permanent vertices.
StopsAtConvergence ==
    /\ [](pc = "done" => AllPermanent)
    /\ [][/\ (pc # "done" /\ pc' = "done") => (pc = "check" /\ AllPermanent)
          /\ (pc = "check" /\ AllPermanent) => pc' = "done"
          /\ (pc = "check" /\ pc' = "exchange") => ~AllPermanent]_vars

\* a run that went on after a round with Candidates left and returned later
StopsAtConvergenceWitness ==
    pc = "done" /\ round = MaxRound /\ \E i \in Ids : start[i].kind = "Candidate"

\* ---- C5 -----------------------------------------------------------------
\* C5 (synchronous rounds): no colouring changes during the deliver phase; in
\* the compute phase every vertex not yet processed still holds its
\* start-of-round colouring and, if Candidate, an inbox that is exactly the
\* start-of-round colourings of its in-neighbours (all edges delivered); and
\* the update of the processed vertex is an outcome of the rule applied to its
\* own start-of-round colouring and those of its in-neighbours, whatever the
\* vertices processed before it did, and touches no other vertex's colouring
\* (a step that panics updates no colouring at all).
SynchronousRounds ==
    /\ [](pc = "exchange" => Colorings = start)
    /\ [](pc = "compute" =>
            \A i \in Ids : i >= k =>
                /\ nodes[i].coloring = start[i]
                /\ IsCandidate(i) => nodes[i].inbox = Snapshot(i))
    /\ [][(pc = "compute" /\ k < NumNodes) =>
            /\ pc' # "panic" =>
                   nodes'[k].coloring \in
                       RuleOutcomes(start[k], {start[u] : u \in InNeighbours(k)}, delta)
            /\ pc' = "panic" => nodes'[k].coloring = nodes[k].coloring
            /\ \A j \in Ids \ {k} : nodes'[j].coloring = nodes[j].coloring]_vars

\* mid compute phase: an earlier vertex has already changed its colouring and
\* a neighbour of it that is still Candidate has not been processed yet
SynchronousRoundsWitness ==
    /\ pc = "compute"
    /\ \E i, j \in Ids :
          /\ i < k /\ j >= k /\ <<i, j>> \in Edges
          /\ nodes[i].coloring # start[i]
          /\ IsCandidate(j)

\* ---- C6 -----------------------------------------------------------------
\* C6 (available never empty): when delta is at least the true maximum degree,
\* the unwrap of line 229 never panics: a Candidate that has to resample has a
\* non-empty set of available colours.
AvailableNeverEmpty ==
    MaxDegree <= delta =>
        /\ pc # "panic"
        /\ (pc = "compute" /\ k < NumNodes /\ IsCandidate(k)
               /\ Color(k) \in {nodes[k].inbox[j].color : j \in DOMAIN nodes[k].inbox})
            => \E c \in 0..delta :
                  \A j \in DOMAIN nodes[k].inbox :
                      nodes[k].inbox[j].kind = "Permanent" => nodes[k].inbox[j].color # c

\* the tight case: a vertex must resample and every neighbour is Permanent
\* with a colour of its own, so that exactly one colour is left
AvailableNeverEmptyWitness ==
    /\ MaxDegree <= delta /\ delta >= 2
    /\ pc = "compute" /\ k < NumNodes /\ IsCandidate(k)
    /\ ~can_go_permanent(nodes[k], delta)
    /\ Cardinality(available_colors(nodes[k], delta)) = 1

\* ---- C7 -----------------------------------------------------------------
\* In the compute phase the colouring of a node at the end of the round is
\* decided when the node has been processed, is Permanent, or will commit.
Decided(j) ==
    \/ j < k
    \/ ~has_candidate_color(nodes[j])
    \/ can_go_permanent(nodes[j], delta)

\* the draws of the round were lucky so far: no two adjacent decided nodes
\* hold the same colour
OnTrack ==
    \A j \in DOMAIN graph :
        (Decided(graph[j][1]) /\ Decided(graph[j][2]))
            => nodes[graph[j][1]].coloring.color # nodes[graph[j][2]].coloring.color

\* C7 (termination): on a symmetric graph with delta equal to its maximum
\* degree, whenever a Candidate has to redraw, a colour that no decided
\* neighbour holds can be drawn; and every run returns with no Candidate
\* vertex left unless, in the last two rounds followed, some draw fell on the
\* colour of a decided neighbour.  (thread_rng makes every possible draw with
\* positive probability, so fair draws are lucky through two rounds in a row.)
Termination ==
    /\ []((/\ Symmetric /\ MaxDegree = delta
           /\ pc = "compute" /\ k < NumNodes /\ IsCandidate(k) /\ OnTrack
           /\ \E j \in DOMAIN nodes[k].inbox : nodes[k].inbox[j].color = Color(k))
              => ENABLED (ComputeResample /\ OnTrack'))
    /\ ((Symmetric /\ MaxDegree = delta) =>
            <>(\/ pc = "done" /\ AllPermanent
               \/ pc = "compute" /\ round >= MaxRound - 1 /\ ~OnTrack))

\* a run with delta equal to the maximum degree that returned from a round
\* which some vertices entered Permanent and others still Candidate, so that
\* it took several rounds and resampling to converge
TerminationWitness ==
    /\ Symmetric /\ MaxDegree = delta /\ Len(graph) >= 4
    /\ pc = "done"
    /\ \E i, j \in Ids : start[i].kind = "Permanent" /\ start[j].kind = "Candidate"

\* ---- C8 -----------------------------------------------------------------
\* C8 (complete graph): a returned run on a complete graph with n vertices and
\* delta = n - 1 uses every colour of 0..n-1 exactly once.
CompleteGraphBijection ==
    (pc = "done" /\ IsComplete /\ delta = NumNodes - 1) =>
        /\ \A i, j \in Ids : i # j => Color(i) # Color(j)
        /\ {Color(i) : i \in Ids} = 0..(NumNodes - 1)

\* the complete graph on three vertices, returned after a resampling round
CompleteGraphBijectionWitness ==
    pc = "done" /\ IsComplete /\ NumNodes = 3 /\ delta = 2 /\ round >= 2

\* ---- C9 -----------------------------------------------------------------
\* C9 (inboxes transient): at the end of every compute phase the inbox of
\* every vertex, Candidate or Permanent, is empty.
InboxesEmptyAfterCompute ==
    pc = "check" => \A i \in Ids : nodes[i].inbox = <<>>

\* ---- C10 ----------------------------------------------------------------
\* C10 (maximum-rounds guard): some configured bound max_rounds below the
\* horizon of this model is never exceeded by the round counter, the run
\* ending as unconverged instead of starting the round after it.
RoundsGuarded ==
    \E max_rounds \in 1..(MaxRound - 1) :
        round <= max_rounds \/ pc = "unconverged"

\* ---- C11 ----------------------------------------------------------------
\* C11 (misconfigured palette is reported): a run with delta below the true
\* maximum degree of the graph ends in the error outcome (the panic of line
\* 229) and does not return a colouring; runs still going on in round
\* MaxRound are left open.
MisconfigurationReported ==
    (MaxDegree > delta) =>
        <>(\/ pc = "panic"
           \/ pc = "check" /\ round = MaxRound /\ ~AllPermanent)

\* ---- C12 ----------------------------------------------------------------
\* C12 (halving policy provided): some run mode of the program, the one of the
\* command line or another one, colours the graph with the deterministic
\* halving / tie-break policy.
HalvingSelectable ==
    \E mode \in {cli.mode} \cup RunModes :
        PolicyOf(mode) = "halving"

\* ---- C13 ----------------------------------------------------------------
\* C13 (no Permanent conflict, ever): in every state of a run no edge joins
\* two Permanent vertices of the same colour.
NoPermanentConflict ==
    \A e \in Edges :
        (IsPermanent(e[1]) /\ IsPermanent(e[2])) => Color(e[1]) # Color(e[2])

\* a Candidate has resampled onto the colour of a neighbour that committed in
\* the same round, and was then processed once more without committing it
NoPermanentConflictWitness ==
    /\ pc = "check"
    /\ \E e \in Edges :
          /\ start[e[1]].kind = "Candidate" /\ start[e[2]].kind = "Permanent"
          /\ start[e[1]].color = start[e[2]].color
          /\ IsCandidate(e[1])

\* ---- C14 ----------------------------------------------------------------
\* C14 (commit rule): the compute step of a Candidate(c) vertex makes it
\* Permanent exactly when no message of its inbox, from a Permanent or a
\* Candidate neighbour, carries c, and then its colour is still c.
CommitRule ==
    [][(pc = "compute" /\ k < NumNodes /\ IsCandidate(k)) =>
          /\ nodes'[k].coloring.kind = "Permanent"
                <=> ~(\E j \in DOMAIN nodes[k].inbox :
                          nodes[k].inbox[j].color = Color(k))
          /\ nodes'[k].coloring.kind = "Permanent"
                => nodes'[k].coloring.color = Color(k)]_vars

\* a vertex has just committed a colour other than the smallest free one,
\* out of an inbox that held a Permanent and a Candidate message
CommitRuleWitness ==
    /\ pc = "compute" /\ k >= 1
    /\ start[k - 1].kind = "Candidate" /\ IsPermanent(k - 1)
    /\ Color(k - 1) >= 1
    /\ \E u, w \in InNeighbours(k - 1) :
          /\ start[u].kind = "Permanent" /\ start[w].kind = "Candidate"
          /\ start[u].color > 0 /\ start[w].color > 0

\* ---- C15 ----------------------------------------------------------------
\* the colours not held by a neighbour that was Permanent in the snapshot
AvailableInSnapshot(v) ==
    (0..delta) \ {start[u].color :
                     u \in {w \in InNeighbours(v) : start[w].kind = "Permanent"}}

\* some neighbour held the colour of v in the snapshot
HeldInSnapshot(v) == \E u \in InNeighbours(v) : start[u].color = start[v].color

\* C15 (resample rule): a Candidate whose colour some neighbour held in the
\* round's snapshot stays Candidate; unless the available set (the palette
\* 0..delta minus the colours of the neighbours Permanent in the snapshot) is
\* empty, in which case the run panics, its new colour is a member of that
\* set; and every member of the set is a possible outcome of the draw.
ResampleRule ==
    /\ []((pc = "compute" /\ k < NumNodes /\ IsCandidate(k) /\ HeldInSnapshot(k))
            => \A c \in AvailableInSnapshot(k) :
                  ENABLED (ComputeResample
                              /\ nodes'[k].coloring.kind = "Candidate"
                              /\ nodes'[k].coloring.color = c))
    /\ [][(pc = "compute" /\ k < NumNodes /\ IsCandidate(k) /\ HeldInSnapshot(k)) =>
            /\ nodes'[k].coloring.kind = "Candidate"
            /\ pc' = "panic" <=> AvailableInSnapshot(k) = {}
            /\ pc' # "panic" => nodes'[k].coloring.color \in AvailableInSnapshot(k)]_vars

\* a vertex has redrawn the colour it held, which is also the colour of a
\* neighbour that was Candidate in the snapshot
ResampleRuleWitness ==
    /\ pc = "compute" /\ k >= 1
    /\ start[k - 1].kind = "Candidate" /\ IsCandidate(k - 1)
    /\ Color(k - 1) = start[k - 1].color
    /\ \E u \in InNeighbours(k - 1) :
          start[u].kind = "Candidate" /\ start[u].color = Color(k - 1)
    /\ \E u \in InNeighbours(k - 1) : start[u].kind = "Permanent"

\* ---- C16 ----------------------------------------------------------------
\* C16 (deliver phase): each step of the exchange loop appends the sender's
\* start-of-round colouring to the inbox of the receiver of its edge and
\* changes no other inbox, no colouring and not the graph; so when the loop
\* is over the inbox of every vertex ends with exactly one entry per edge into
\* it, in edge order (and holds nothing else if the vertex is Candidate).
DeliverPhase ==
    /\ [][(pc = "exchange" /\ k < Len(graph)) =>
            /\ nodes'[graph[k + 1][2]].inbox
                   = Append(nodes[graph[k + 1][2]].inbox, start[graph[k + 1][1]])
            /\ \A w \in Ids \ {graph[k + 1][2]} : nodes'[w].inbox = nodes[w].inbox
            /\ \A w \in Ids : nodes'[w].coloring = nodes[w].coloring
            /\ graph' = graph]_vars
    /\ []((pc = "compute" /\ k = 0) =>
            \A v \in Ids :
                /\ Len(nodes[v].inbox) >= Len(InEdges(v))
                /\ \A j \in 1..Len(InEdges(v)) :
                       nodes[v].inbox[Len(nodes[v].inbox) - Len(InEdges(v)) + j]
                           = start[InEdges(v)[j][1]]
                /\ IsCandidate(v) => Len(nodes[v].inbox) = Len(InEdges(v)))

\* the exchange loop of a later round is over: a Candidate with two
\* in-edges holds a Permanent and a Candidate message
DeliverPhaseWitness ==
    /\ pc = "compute" /\ k = 0 /\ round >= 2
    /\ \E v \in Ids :
          /\ IsCandidate(v) /\ Len(nodes[v].inbox) = 2
          /\ nodes[v].inbox[1].kind # nodes[v].inbox[2].kind

\* ---- C17 ----------------------------------------------------------------
\* C17 (constructors): for every constructor and every num >= 1 the returned
\* delta is the true maximum out-degree of the built graph (no edge is stored
\* twice, so the out-degree of u is the number of v with an edge u -> v),
\* which is n - 1 for complete_graph (199 in test_case), min(n - 1, 2) for
\* chain and min(n - 1, 4) for hydrocarbon; every edge of the graph has its
\* reverse edge, and none is a self-loop.
ConstructorDelta ==
    pc = "built" =>
        LET E == Edges
            out == [u \in Ids |-> Cardinality({v \in Ids : <<u, v>> \in E})]
        IN /\ Cardinality(E) = Len(graph)
           /\ \A e \in E : e[1] \in Ids /\ e[2] \in Ids
           /\ \A u \in Ids : out[u] <= delta
           /\ \E u \in Ids : out[u] = delta
           /\ cli.mode = "Testcase" => delta = 199
           /\ cli.mode = "CompleteGraph" => delta = cli.num - 1
           /\ cli.mode = "Chain" =>
                  delta = (IF cli.num - 1 <= 2 THEN cli.num - 1 ELSE 2)
           /\ cli.mode = "Hydrocarbon" =>
                  delta = (IF cli.num - 1 <= 4 THEN cli.num - 1 ELSE 4)
           /\ \A e \in E : <<e[2], e[1]>> \in E /\ e[1] # e[2]

\* a hydrocarbon with a carbon inside the chain that has all four bonds
ConstructorDeltaWitness ==
    /\ pc = "built" /\ cli.mode = "Hydrocarbon" /\ delta = 4
    /\ \E u \in Ids : u > 1 /\ Degree(u) = 4

\* ---- C18 ----------------------------------------------------------------
\* the undirected edges, and the vertices joined to u
Bonds == {{e[1], e[2]} : e \in Edges}
Adjacent(u) == {e[2] : e \in {d \in Edges : d[1] = u}}
                  \cup {e[1] : e \in {d \in Edges : d[2] = u}}

RECURSIVE ReachableFrom(_)
\* the vertices joined to a vertex of S by a path
ReachableFrom(S) ==
    LET T == S \cup UNION {Adjacent(u) : u \in S}
    IN IF T = S THEN S ELSE ReachableFrom(T)

RECURSIVE Pruned(_)
\* what is left of the vertex set V when leaves and isolated vertices are
\* removed over and over: empty exactly when V spans no cycle
Pruned(V) ==
    LET inner == {u \in V : Cardinality(Adjacent(u) \cap V) >= 2}
    IN IF inner = V THEN V ELSE Pruned(inner)

\* C18 (hydrocarbon is a tree): hydrocarbon(n) has n vertices and exactly
\* n - 1 undirected edges, each stored once per direction, between vertices
\* with index < n; it is connected and acyclic, and no vertex has degree
\* above 4 (so 6 edges for n = 7).
HydrocarbonTree ==
    (pc = "built" /\ cli.mode = "Hydrocarbon") =>
        /\ Ids = 0..(cli.num - 1)
        /\ Cardinality(Bonds) = cli.num - 1
        /\ Len(graph) = 2 * (cli.num - 1)
        /\ \A e \in Edges : e[1] \in 0..(cli.num - 1) /\ e[2] \in 0..(cli.num - 1)
        /\ ReachableFrom({0}) = 0..(cli.num - 1)
        /\ Pruned(0..(cli.num - 1)) = {}
        /\ \A u \in Ids : Cardinality(Adjacent(u)) <= 4
        /\ cli.num = 7 => Cardinality(Bonds) = 6

\* the hydrocarbon of seven vertices: two carbons, the second one with a
\* single hydrogen
HydrocarbonTreeWitness ==
    /\ pc = "built" /\ cli.mode = "Hydrocarbon" /\ cli.num = 7
    /\ Cardinality(Bonds) = 6
    /\ Cardinality(Adjacent(1)) = 4 /\ Cardinality(Adjacent(4)) = 3

\* ---- C19 ----------------------------------------------------------------
\* C19 (idempotence of convergence): the compute step of a vertex that is
\* not Candidate changes no colouring and no inbox, so a compute phase over
\* a state without Candidates changes nothing; and the convergence check of
\* such a state reports finished: the return is enabled and is the only step.
ConvergenceIdempotent ==
    /\ [][(pc = "compute" /\ k < NumNodes /\ IsPermanent(k)) =>
              (nodes' = nodes /\ pc' = "compute" /\ k' = k + 1)]_vars
    /\ [][(pc \in {"compute", "check"} /\ AllPermanent) =>
              (nodes' = nodes /\ pc' \in {"compute", "check", "done"})]_vars
    /\ []((pc = "check" /\ AllPermanent) => ENABLED (Next /\ pc' = "done"))
    /\ [][(pc = "check" /\ AllPermanent) => pc' = "done"]_vars

\* the compute loop has gone over two Permanent vertices with messages in
\* their inboxes after the last Candidate, vertex 0, had committed
ConvergenceIdempotentWitness ==
    /\ pc = "compute" /\ k = NumNodes /\ NumNodes = 3 /\ AllPermanent
    /\ start[0].kind = "Candidate"
    /\ start[1].kind = "Permanent" /\ start[2].kind = "Permanent"
    /\ nodes[1].inbox # <<>> /\ nodes[2].inbox # <<>>

====
